---- MODULE Spec2Model ----
(***************************************************************************)
(* A model of oslo/messaging/notify/notifier.py: the Notifier, its         *)
(* specialization _SubNotifier, the driver manager loaded at construction  *)
(* and the build-and-dispatch pipeline of Notifier._notify.                *)
(*                                                                         *)
(* Python values are modelled as strings.  None and the prepare() sentinel *)
(* are two reserved strings, so that "omitted", None and the empty string  *)
(* stay three different values.  The topics and the transport, which only *)
(* travel to the driver constructors, are left out.                        *)
(***************************************************************************)
EXTENDS Integers, Sequences, FiniteSets, TLC

VARIABLES
    conf,       \* conf.notification_driver, the configured driver names
    notifiers,  \* the heap of Notifier/_SubNotifier objects, in creation order
    mgrs,       \* the heap of NamedExtensionManager objects, in creation order
    frame,      \* per thread: the activation of a leveled call and of _notify
    msg,        \* the envelope dicts, one slot per _notify activation
    uuids,      \* number of uuids generated so far
    ncalls      \* number of leveled calls started so far

vars == <<conf, notifiers, mgrs, frame, msg, uuids, ncalls>>

----------------------------------------------------------------------------
(* Bounds of the model *)

MaxNotifiers == 2   \* notifiers (the base and its specializations) in Spec, SpecConc
MaxFamily == 3      \* notifiers in SpecPrepare, where prepare calls are chained
MaxCalls == 2       \* leveled calls started

Threads == {1, 2}
MainThread == {1}

----------------------------------------------------------------------------
(* Python values *)

None == "<None>"
marker == "<marker>"
Raise == "<raise>"

Truthy(x) == x \notin {None, ""}

\* Python's `a or b`: a when a is truthy, else b (whatever b is).
Or(a, b) == IF Truthy(a) THEN a ELSE b

Range(s) == {s[i] : i \in DOMAIN s}

PublisherIds == {None, "", "compute"}
PrepareArgs == {marker} \cup PublisherIds
Serializers == {None, "JsonSerializer"}

\* The (ctxt, event_type, payload) triples callers pass to the leveled calls.
Request1 == [ctxt |-> "ctxt1", event_type |-> "compute.create", payload |-> "inst1"]
Request2 == [ctxt |-> "ctxt2", event_type |-> "compute.delete", payload |-> "inst2"]

----------------------------------------------------------------------------
(* Driver loading: named.NamedExtensionManager(names=..., invoke_on_load=True) *)

\* The entry points registered under 'oslo.messaging.notify.drivers'.
EntryPoints == <<"log", "test", "faulty">>

\* "faulty" is a registered driver whose constructor raises.
ConstructorRaises(ep) == ep = "faulty"

DriverArgs == {None, "nosuch", "faulty"}
ConfiguredDrivers == { <<>>, <<"log", "test">>, <<"log", "nosuch">> }

\* The manager walks the registered entry points, keeps those whose name was
\* asked for, and instantiates each one; an entry point whose constructor
\* raises is logged and left out.  The call passes neither a load-failure
\* callback nor a check of the names that were found.
NamedExtensionManager(names) ==
    [ names |-> names,
      extensions |-> SelectSeq(EntryPoints,
                        LAMBDA ep : ep \in Range(names) /\ ~ConstructorRaises(ep)) ]

\* How many times driver d's constructor has run.
LoadCount(d) == Cardinality({m \in DOMAIN mgrs : d \in Range(mgrs[m].extensions)})

----------------------------------------------------------------------------
(* Construction and specialization *)

\* Notifier.__init__: the new object and the manager heap after it.
Notifier_init(publisher_id, driver, serializer) ==
    LET driver_names == IF driver # None THEN <<driver>> ELSE conf
    IN  [ obj |-> [ cls |-> "Notifier",
                    base |-> 0,
                    publisher_id |-> publisher_id,
                    driver_names |-> driver_names,
                    serializer |-> Or(serializer, "NoOpSerializer"),
                    driver_mgr |-> Len(mgrs) + 1 ],
          mgrs |-> Append(mgrs, NamedExtensionManager(driver_names)) ]

\* A specialization that runs the base constructor again, loading the drivers anew.
SubNotifier_init_reload(base, publisher_id) ==
    [ obj |-> [ cls |-> "_SubNotifier",
                base |-> base,
                publisher_id |-> publisher_id,
                driver_names |-> notifiers[base].driver_names,
                serializer |-> notifiers[base].serializer,
                driver_mgr |-> Len(mgrs) + 1 ],
      mgrs |-> Append(mgrs, NamedExtensionManager(notifiers[base].driver_names)) ]

\* _SubNotifier.__init__: serializer and driver manager are the base's own.
SubNotifier_init(base, publisher_id) ==
    [ obj |-> [ cls |-> "_SubNotifier",
                base |-> base,
                publisher_id |-> publisher_id,
                driver_names |-> notifiers[base].driver_names,
                serializer |-> notifiers[base].serializer,
                driver_mgr |-> notifiers[base].driver_mgr ],
      mgrs |-> mgrs ]

\* A _prepare that tests the argument for truth instead of for the sentinel.
SubNotifier_prepare_falsy(base, publisher_id) ==
    SubNotifier_init(base,
        IF publisher_id = marker THEN notifiers[base].publisher_id
        ELSE Or(publisher_id, notifiers[base].publisher_id))

\* _SubNotifier._prepare
SubNotifier_prepare(base, publisher_id) ==
    SubNotifier_init(base,
        IF publisher_id = marker THEN notifiers[base].publisher_id
        ELSE publisher_id)

----------------------------------------------------------------------------
(* The serializer *)

\* What serialize_entity may do: the NoOpSerializer hands the entity back;
\* an injected serializer transforms it or raises.
serialize_entity(serializer, ctxt, entity) ==
    IF serializer = "NoOpSerializer" THEN {entity}
    ELSE {"json(" \o entity \o ")", Raise}

serialize_context(serializer, ctxt) ==
    IF serializer = "NoOpSerializer" THEN {ctxt}
    ELSE {"json(" \o ctxt \o ")", Raise}

----------------------------------------------------------------------------
(* Activations *)

NoMsg == [ message_id |-> "<unset>", publisher_id |-> "<unset>",
           event_type |-> "<unset>", priority |-> "<unset>",
           payload |-> "<unset>", timestamp |-> "<unset>" ]

IdleFrame ==
    [ pc |-> "idle", self |-> 0, op |-> "",
      args |-> [ctxt |-> "", event_type |-> "", payload |-> ""],
      priority |-> "", publisher_id |-> None, payload |-> "", ctxt |-> "",
      uuid |-> "", idx |-> 0, exc |-> "none", logged |-> 0, sent |-> <<>> ]

\* An exception leaving _notify and the leveled call, to the caller.
Propagate(f, e) == [f EXCEPT !.pc = "raised", !.exc = e]

\* An envelope kept in one place for every activation, as an attribute of
\* the shared notifier would be.
SharedSlot(t) == 1

\* The envelope dict of thread t's activation is a local of that activation.
Local(t) == t

Mgr(f) == mgrs[notifiers[f.self].driver_mgr]

generate_uuid == "uuid-" \o ToString(uuids + 1)

\* str(timeutils.utcnow()); time is counted in envelopes built.
utcnow == "utc-" \o ToString(uuids + 1)

----------------------------------------------------------------------------
(* Notifier._notify, one step per statement *)

\* After line 152: the local payload is rebound, or the serializer's error leaves.
bind_payload_swallow(f, r) ==
    IF r = Raise
    THEN [f EXCEPT !.exc = "SerializerError", !.payload = f.args.payload,
                   !.pc = "serialize_context"]
    ELSE [f EXCEPT !.payload = r, !.pc = "serialize_context"]

bind_payload(f, r) ==
    IF r = Raise THEN Propagate(f, "SerializerError")
    ELSE [f EXCEPT !.payload = r, !.pc = "serialize_context"]

\* After line 153: the local ctxt is rebound, or the serializer's error leaves.
bind_ctxt(f, r) ==
    IF r = Raise THEN Propagate(f, "SerializerError")
    ELSE [f EXCEPT !.ctxt = r, !.pc = "build"]

\* Lines 155-160: the envelope.
build_msg(f) ==
    [ message_id |-> generate_uuid,
      publisher_id |-> Or(f.publisher_id, notifiers[f.self].publisher_id),
      event_type |-> f.args.event_type,
      priority |-> f.priority,
      payload |-> f.payload,
      timestamp |-> utcnow ]

\* A dispatch that calls map() whatever the manager holds.
HasExtensions_always(m) == TRUE

\* Line 170: the guard in front of map().
HasExtensions(m) == m.extensions # <<>>

\* ExtensionManager.map refuses to run over no extensions.
map_enter(f) ==
    IF Mgr(f).extensions = <<>> THEN Propagate(f, "RuntimeError")
    ELSE [f EXCEPT !.pc = "map", !.idx = 1]

\* map() moves on to the next extension, or _notify returns.
map_next(f) ==
    IF f.idx < Len(Mgr(f).extensions) THEN [f EXCEPT !.idx = @ + 1]
    ELSE [f EXCEPT !.pc = "returned"]

\* What a driver's notify may do with the call: deliver, raise (an Exception,
\* the class line 165 names), or write to the dict it was handed and return.
DriverBehaviours == {"deliver", "raise", "rewrite"}

Rewrite(payload) == "masked(" \o payload \o ")"

\* A do_notify without the try/except.
do_notify_uncaught(f, how) ==
    IF how = "raise" THEN Propagate(f, "DriverError") ELSE map_next(f)

\* Lines 162-168: a driver's exception is logged and goes no further.
do_notify(f, how) ==
    IF how = "raise" THEN map_next([f EXCEPT !.logged = @ + 1]) ELSE map_next(f)

----------------------------------------------------------------------------
(* Actions *)

Construct(publisher_id, driver, serializer) ==
    /\ notifiers = <<>>
    /\ LET r == Notifier_init(publisher_id, driver, serializer)
       IN  /\ notifiers' = Append(notifiers, r.obj)
           /\ mgrs' = r.mgrs
    /\ UNCHANGED <<conf, frame, msg, uuids, ncalls>>

prepare(n, publisher_id, limit) ==
    /\ n \in DOMAIN notifiers
    /\ Len(notifiers) < limit
    /\ LET r == SubNotifier_prepare(n, publisher_id)
       IN  /\ notifiers' = Append(notifiers, r.obj)
           /\ mgrs' = r.mgrs
    /\ UNCHANGED <<conf, frame, msg, uuids, ncalls>>

\* A leveled call enters _notify (for a _SubNotifier through line 248) with
\* publisher_id left at its default.
EnterNotify(t, n, op, req, priority) ==
    /\ frame[t].pc \in {"idle", "returned", "raised"}
    /\ n \in DOMAIN notifiers
    /\ ncalls < MaxCalls
    /\ frame' = [frame EXCEPT ![t] =
                    [IdleFrame EXCEPT !.pc = "serialize_entity", !.self = n,
                                      !.op = op, !.args = req,
                                      !.priority = priority]]
    /\ msg' = [msg EXCEPT ![Local(t)] = NoMsg]
    /\ ncalls' = ncalls + 1
    /\ UNCHANGED <<conf, notifiers, mgrs, uuids>>

debug(t, n, req) == EnterNotify(t, n, "debug", req, "DEBUG")

info(t, n, req) == EnterNotify(t, n, "info", req, "INFO")

\* A warn that sends the logging module's name for the level.
warn_as_warning(t, n, req) == EnterNotify(t, n, "warn", req, "WARNING")

warn(t, n, req) == EnterNotify(t, n, "warn", req, "WARN")

error(t, n, req) == EnterNotify(t, n, "error", req, "ERROR")

critical(t, n, req) == EnterNotify(t, n, "critical", req, "CRITICAL")

SerializeEntity(t) ==
    /\ frame[t].pc = "serialize_entity"
    /\ \E r \in serialize_entity(notifiers[frame[t].self].serializer,
                                 frame[t].args.ctxt, frame[t].args.payload) :
           frame' = [frame EXCEPT ![t] = bind_payload(@, r)]
    /\ UNCHANGED <<conf, notifiers, mgrs, msg, uuids, ncalls>>

SerializeContext(t) ==
    /\ frame[t].pc = "serialize_context"
    /\ \E r \in serialize_context(notifiers[frame[t].self].serializer,
                                  frame[t].args.ctxt) :
           frame' = [frame EXCEPT ![t] = bind_ctxt(@, r)]
    /\ UNCHANGED <<conf, notifiers, mgrs, msg, uuids, ncalls>>

BuildMsg(t) ==
    /\ frame[t].pc = "build"
    /\ msg' = [msg EXCEPT ![Local(t)] = build_msg(frame[t])]
    /\ frame' = [frame EXCEPT ![t].uuid = generate_uuid, ![t].pc = "dispatch"]
    /\ uuids' = uuids + 1
    /\ UNCHANGED <<conf, notifiers, mgrs, ncalls>>

Dispatch(t) ==
    /\ frame[t].pc = "dispatch"
    /\ frame' = [frame EXCEPT ![t] =
                    IF HasExtensions(Mgr(@)) THEN map_enter(@)
                    ELSE [@ EXCEPT !.pc = "returned"]]
    /\ UNCHANGED <<conf, notifiers, mgrs, msg, uuids, ncalls>>

\* map() applies do_notify to the extension at idx: the driver gets the
\* serialized context, the envelope dict itself and the priority.
DoNotify(t) ==
    /\ frame[t].pc = "map"
    /\ \E how \in DriverBehaviours :
           LET f == frame[t]
               call == [ ext |-> Mgr(f).extensions[f.idx],
                         ctxt |-> f.ctxt,
                         msg |-> msg[Local(t)],
                         priority |-> f.priority,
                         how |-> how ]
           IN  /\ frame' = [frame EXCEPT ![t] =
                               do_notify([f EXCEPT !.sent = Append(@, call)], how)]
               /\ msg' = IF how = "rewrite"
                         THEN [msg EXCEPT ![Local(t)].payload = Rewrite(@)]
                         ELSE msg
    /\ UNCHANGED <<conf, notifiers, mgrs, uuids, ncalls>>

\* The statements of _notify, for the threads of T.
Pipeline(T) ==
    \E t \in T :
        \/ SerializeEntity(t)
        \/ SerializeContext(t)
        \/ BuildMsg(t)
        \/ Dispatch(t)
        \/ DoNotify(t)

----------------------------------------------------------------------------
(* Specifications *)

InitWith(confs) ==
    /\ conf \in confs
    /\ notifiers = <<>>
    /\ mgrs = <<>>
    /\ frame = [t \in Threads |-> IdleFrame]
    /\ msg = [t \in Threads |-> NoMsg]
    /\ uuids = 0
    /\ ncalls = 0

\* Spec: one caller; every configuration, constructor argument and driver
\* behaviour; the base and one specialization.
Init == InitWith(ConfiguredDrivers)

Next ==
    \/ \E p \in PublisherIds, d \in DriverArgs, s \in Serializers : Construct(p, d, s)
    \/ \E n \in 1..MaxNotifiers, p \in PrepareArgs : prepare(n, p, MaxNotifiers)
    \/ \E t \in MainThread, n \in 1..MaxNotifiers :
          \/ debug(t, n, Request1)
          \/ info(t, n, Request1)
          \/ warn(t, n, Request1)
          \/ error(t, n, Request1)
          \/ critical(t, n, Request1)
    \/ Pipeline(MainThread)

Spec == Init /\ [][Next]_vars

\* SpecPrepare: one caller; prepare chained on the base and on its
\* specializations with every argument, over one loaded driver.
InitPrepare == InitWith({<<"log", "nosuch">>})

NextPrepare ==
    \/ \E p \in PublisherIds : Construct(p, None, None)
    \/ \E n \in 1..MaxFamily, p \in PrepareArgs : prepare(n, p, MaxFamily)
    \/ \E t \in MainThread, n \in 1..MaxFamily :
          \/ debug(t, n, Request1)
          \/ info(t, n, Request1)
          \/ warn(t, n, Request1)
          \/ error(t, n, Request1)
          \/ critical(t, n, Request1)
    \/ Pipeline(MainThread)

SpecPrepare == InitPrepare /\ [][NextPrepare]_vars

\* SpecConc: two callers interleaved, statement by statement, on a base and
\* its specialization.
InitConc == InitWith({<<"log", "test">>})

NextConc ==
    \/ Construct("compute", None, "JsonSerializer")
    \/ \E n \in 1..MaxNotifiers, p \in {marker, ""} : prepare(n, p, MaxNotifiers)
    \/ \E t \in Threads, n \in 1..MaxNotifiers :
          \/ info(t, n, Request1)
          \/ error(t, n, Request2)
    \/ Pipeline(Threads)

SpecConc == InitConc /\ [][NextConc]_vars

----------------------------------------------------------------------------
(* Properties *)

Drivers == Range(EntryPoints)

\* The calls thread t's current leveled call has made to drivers.
Sent(t) == frame[t].sent

\* How many of them went to driver d.
Invocations(t, d) == Cardinality({i \in DOMAIN Sent(t) : Sent(t)[i].ext = d})

\* The drivers of the notifier thread t is calling.
Loaded(t) == Range(Mgr(frame[t]).extensions)

Called(t) == frame[t].pc # "idle"

\* C1: once payload and context are serialized, whichever drivers raise from
\* notify, no driver is invoked twice, only loaded drivers are invoked, the
\* call never raises, and when it has returned every loaded driver has been
\* invoked exactly once.
C1_EveryDriverOnce ==
    \A t \in Threads :
        Called(t) =>
            /\ \A d \in Drivers : Invocations(t, d) <= 1
            /\ \A i \in DOMAIN Sent(t) : Sent(t)[i].ext \in Loaded(t)
            /\ frame[t].exc # "SerializerError" => frame[t].pc # "raised"
            /\ frame[t].pc = "returned" =>
                   \A d \in Loaded(t) : Invocations(t, d) = 1

\* Two loaded drivers, both raised, the call returned.
C1_Witness ==
    \E t \in Threads :
        /\ frame[t].pc = "returned"
        /\ Len(Sent(t)) = 2
        /\ \A i \in DOMAIN Sent(t) : Sent(t)[i].how = "raise"
        /\ frame[t].logged = 2

\* C2: no Notifier exists whose loaded drivers are fewer than the names it
\* was constructed with (construction with an unresolvable name fails).
C2_FailFast ==
    \A n \in DOMAIN notifiers :
        Range(mgrs[notifiers[n].driver_mgr].extensions) = Range(notifiers[n].driver_names)

\* C3: prepare with the argument omitted yields the parent's publisher_id,
\* prepare(p) yields p for every p, falsy or not, on a base as on a
\* specialization; and every envelope a notifier dispatches carries that
\* notifier's publisher_id.
C3_PrepareStep ==
    \A n \in 1..MaxFamily, p \in PrepareArgs :
        prepare(n, p, MaxFamily) =>
            notifiers'[Len(notifiers')].publisher_id =
                IF p = marker THEN notifiers[n].publisher_id ELSE p

C3_Envelope ==
    \A t \in Threads : \A i \in DOMAIN Sent(t) :
        Sent(t)[i].msg.publisher_id = notifiers[frame[t].self].publisher_id

C3_PublisherId == [](C3_Envelope) /\ [][C3_PrepareStep]_vars

\* A specialization of a specialization, made with prepare("") on a parent
\* whose publisher_id is "compute", has delivered an envelope.
C3_Witness ==
    /\ Len(notifiers) = 3
    /\ notifiers[3].base = 2
    /\ notifiers[2].base = 1
    /\ notifiers[2].publisher_id = "compute"
    /\ notifiers[3].publisher_id = ""
    /\ \E t \in Threads :
          /\ frame[t].self = 3
          /\ frame[t].pc = "returned"
          /\ Len(Sent(t)) = 1
          /\ Sent(t)[1].msg.publisher_id = ""

\* C4: whatever prepare and notify calls have run, there is one driver
\* manager, every notifier holds that very manager, every loaded driver was
\* constructed exactly once, and the manager never changes after it is loaded.
C4_OneManager ==
    /\ Len(mgrs) = IF notifiers = <<>> THEN 0 ELSE 1
    /\ \A n \in DOMAIN notifiers : notifiers[n].driver_mgr = 1
    /\ \A d \in Drivers :
          LoadCount(d) = IF mgrs # <<>> /\ d \in Range(mgrs[1].extensions) THEN 1 ELSE 0

C4_ManagerStep == mgrs # <<>> => mgrs' = mgrs

C4_SharedRegistry == [](C4_OneManager) /\ [][C4_ManagerStep]_vars

\* A second-level specialization has delivered through the one manager.
C4_Witness ==
    /\ Len(notifiers) = 3
    /\ notifiers[3].base = 2
    /\ LoadCount("log") = 1
    /\ \E t \in Threads :
          /\ frame[t].self = 3
          /\ frame[t].pc = "returned"
          /\ Len(Sent(t)) = 1
          /\ ncalls = 2

EnvelopeFields ==
    {"message_id", "publisher_id", "event_type", "priority", "payload", "timestamp"}

\* C5: every field of every envelope handed to a driver is non-null.
C5_NonNull ==
    \A t \in Threads : \A i \in DOMAIN Sent(t) :
        /\ DOMAIN Sent(t)[i].msg = EnvelopeFields
        /\ \A k \in EnvelopeFields : Sent(t)[i].msg[k] # None

\* The level each leveled operation stands for.
LevelOf(op) ==
    CASE op = "debug" -> "DEBUG"
      [] op = "info" -> "INFO"
      [] op = "warn" -> "WARN"
      [] op = "error" -> "ERROR"
      [] op = "critical" -> "CRITICAL"

\* C6: a leveled operation hands every driver its own level, as the
\* envelope's priority and as the priority argument, on a base and on a
\* specialization.
C6_Priority ==
    \A t \in Threads :
        Called(t) =>
            /\ frame[t].priority = LevelOf(frame[t].op)
            /\ \A i \in DOMAIN Sent(t) :
                  /\ Sent(t)[i].priority = LevelOf(frame[t].op)
                  /\ Sent(t)[i].msg.priority = LevelOf(frame[t].op)

\* warn on a specialization has reached two drivers.
C6_Witness ==
    \E t \in Threads :
        /\ frame[t].op = "warn"
        /\ notifiers[frame[t].self].cls = "_SubNotifier"
        /\ frame[t].pc = "returned"
        /\ Len(Sent(t)) = 2
        /\ Sent(t)[2].msg.priority = "WARN"

\* C7: when the serializer raises on the payload or on the context, the error
\* reaches the caller, no envelope is built and no driver is invoked.
C7_SerializerError ==
    \A t \in Threads :
        frame[t].exc = "SerializerError" =>
            /\ frame[t].pc = "raised"
            /\ Sent(t) = <<>>
            /\ msg[t] = NoMsg
            /\ frame[t].uuid = ""

\* The serializer's error has reached the caller, with nothing dispatched.
C7_Witness ==
    \E t \in Threads :
        /\ frame[t].exc = "SerializerError"
        /\ frame[t].pc = "raised"
        /\ frame[t].payload # ""

\* C7, the later calls: the only notifier there is has delivered to its
\* drivers in a call made after a call on it raised from the serializer
\* (a call that built no envelope took no uuid).  Reachable under Spec.
C7_UsableAfter ==
    /\ Len(notifiers) = 1
    /\ ncalls > uuids
    /\ frame[1].pc = "returned"
    /\ frame[1].exc = "none"
    /\ Sent(1) # <<>>

\* C8: on a notifier whose manager holds no driver, a leveled call invokes
\* nothing, never enters map() and, once serialized, returns normally.
C8_NoDrivers ==
    \A t \in Threads :
        (Called(t) /\ Loaded(t) = {}) =>
            /\ Sent(t) = <<>>
            /\ frame[t].pc # "map"
            /\ frame[t].exc \in {"none", "SerializerError"}
            /\ frame[t].uuid # "" => frame[t].pc \in {"dispatch", "returned"}

\* A call on a specialization of a driverless notifier has returned.
C8_Witness ==
    \E t \in Threads :
        /\ frame[t].pc = "returned"
        /\ notifiers[frame[t].self].cls = "_SubNotifier"
        /\ notifiers[frame[t].self].driver_names = <<>>
        /\ Loaded(t) = {}

\* C9: every driver of one call receives the envelope as it was built:
\* the payload the serializer produced and the fields assembled with it.
C9_Immutable ==
    \A t \in Threads : \A i \in DOMAIN Sent(t) :
        /\ Sent(t)[i].msg.payload = frame[t].payload
        /\ Sent(t)[i].msg.message_id = frame[t].uuid
        /\ Sent(t)[i].msg.event_type = frame[t].args.event_type
        /\ Sent(t)[i].msg.priority = frame[t].priority
        /\ Sent(t)[i].msg.timestamp = Sent(t)[1].msg.timestamp
        /\ Sent(t)[i].msg.publisher_id = Sent(t)[1].msg.publisher_id

RECURSIVE Rewritten(_, _)
\* payload, and what up to k drivers writing to it one after another make of it.
Rewritten(payload, k) ==
    IF k = 0 THEN {payload}
    ELSE {payload} \cup Rewritten(Rewrite(payload), k - 1)

\* C10: with calls interleaved, what a driver receives belongs to the call
\* that invoked it: that call's message_id, publisher_id, event_type,
\* priority, context and payload (as serialized for that call, or as a driver
\* of that same call left it); two calls in flight never share a message_id;
\* and no step changes an existing notifier or the loaded manager.
C10_OwnEnvelope ==
    /\ \A t \in Threads : \A i \in DOMAIN Sent(t) :
          /\ Sent(t)[i].msg.message_id = frame[t].uuid
          /\ Sent(t)[i].msg.publisher_id = notifiers[frame[t].self].publisher_id
          /\ Sent(t)[i].msg.event_type = frame[t].args.event_type
          /\ Sent(t)[i].msg.priority = frame[t].priority
          /\ Sent(t)[i].priority = frame[t].priority
          /\ Sent(t)[i].ctxt = frame[t].ctxt
          /\ Sent(t)[i].msg.payload \in Rewritten(frame[t].payload, i - 1)
    /\ \A t, u \in Threads :
          (t # u /\ frame[t].uuid # "") => frame[t].uuid # frame[u].uuid

C10_Step ==
    /\ \A n \in DOMAIN notifiers : notifiers'[n] = notifiers[n]
    /\ mgrs # <<>> => mgrs' = mgrs

C10_NoInterference == [](C10_OwnEnvelope) /\ [][C10_Step]_vars

\* Both callers are inside map() at once, on the base and on a
\* specialization, with different requests, and one has already delivered.
C10_Witness ==
    /\ frame[1].pc = "map"
    /\ frame[2].pc = "map"
    /\ frame[1].self # frame[2].self
    /\ frame[1].args # frame[2].args
    /\ Sent(1) # <<>>
    /\ msg[1].message_id # msg[2].message_id

====
